---- MODULE Spec2Model ----
(***************************************************************************)
(* Model of app.py: the roman-numeral helpers and the chapter pipeline of  *)
(* PDFChapterSegmenter (extractors, merge_chapters, detect_chapters,       *)
(* simple_chapter_detection, split_pdf_by_chapters).                       *)
(*                                                                         *)
(* Pages: Chapter.start_page and Chapter.end_page are 1-based (app.py:65); *)
(* the writer iterates the 0-based indices range(start_page - 1, end_idx). *)
(* A document is given by what each extractor reads from it: the raw       *)
(* candidates it finds, before its own clamping, de-duplication, sorting   *)
(* and end-page assignment, which are modelled as the code does them.      *)
(***************************************************************************)
EXTENDS Integers, Sequences, FiniteSets

\* ------------------------------------------------------------------ bounds
\* Largest page count of a document.
MaxPages == 3
\* Most raw candidates one extractor finds in a document.
MaxCand == 2
\* Longest string handed to _roman_to_int.
MaxStrLen == 5
\* Largest integer handed to _int_to_roman.
MaxN == 3999

\* Chapter titles found in documents.
Titles == {"A", "B"}

VARIABLES
    total_pages,          \* self.total_pages
    outline_chapters,     \* detect_chapters local, app.py:540
    formatting_chapters,  \* detect_chapters local, app.py:541
    toc_chapters,         \* detect_chapters local, app.py:542
    chapters,             \* self.chapters
    simple_raw,           \* simple_chapter_detection local `chapters`, app.py:561-574
    written,              \* the files split_pdf_by_chapters has written, in order
    pc,                   \* position in main / detect_chapters / split_pdf_by_chapters
    r_kind,               \* roman helpers: which input was given ("str", "int", "none")
    r_s,                  \* roman helpers: the string argument
    r_n,                  \* roman helpers: the integer argument
    r_int,                \* roman helpers: result of _roman_to_int (None or Some)
    r_str,                \* roman helpers: result of _int_to_roman
    r_pc,                 \* roman helpers: position of the caller
    doc_open,             \* the handle fitz.open returned is open (app.py:86, 656)
    segmenter,            \* main's `segmenter` is bound (TRUE) or None (FALSE), app.py:676-678
    toc_entries,          \* extract_chapters_by_table_of_contents called alone: its entries
    outline_tree,         \* extract_chapters_from_outline called alone: self.reader.outline
    label_map,            \* _build_label_map local `label_map`, then self._label_to_pdf_index
    lm_pc,                \* position in _build_label_map / _printed_page_to_pdf_index
    lm_ran,               \* the methods of _build_label_map entered so far, with failures
    lm_src,               \* per page, the label the method that filled label_map read
    lm_printed,           \* argument of _printed_page_to_pdf_index
    lm_result             \* result of _printed_page_to_pdf_index (None or Some)

vars == <<total_pages, outline_chapters, formatting_chapters, toc_chapters,
          chapters, simple_raw, written, pc,
          r_kind, r_s, r_n, r_int, r_str, r_pc,
          doc_open, segmenter, toc_entries, outline_tree,
          label_map, lm_pc, lm_ran, lm_src, lm_printed, lm_result>>

pipe_vars == <<total_pages, outline_chapters, formatting_chapters, toc_chapters,
               chapters, simple_raw, written, pc>>

roman_vars == <<r_kind, r_s, r_n, r_int, r_str, r_pc>>

session_vars == <<doc_open, segmenter>>

call_vars == <<toc_entries, outline_tree>>

label_vars == <<label_map, lm_pc, lm_ran, lm_src, lm_printed, lm_result>>

\* What the pipeline leaves alone apart from its own variables.
not_pipe_vars == <<roman_vars, call_vars, label_vars>>

\* What the helpers' callers leave alone apart from their own variables.
not_roman_vars == <<pipe_vars, session_vars, call_vars, label_vars>>

\* ----------------------------------------------------------------- helpers
SeqsUpTo(S, n) == UNION {[1..k -> S] : k \in 0..n}

Min(a, b) == IF a <= b THEN a ELSE b

Max(a, b) == IF a >= b THEN a ELSE b

\* Chapter(title=..., start_page=...) with end_page still unset (app.py:61-67).
Candidate(t, p) == [title |-> t, start_page |-> p]

\* ---------------------------------------------------- list.sort by start_page
\* list.sort is stable: x goes after every element whose key is <= its key.
InsertAfterEqual(x, s) ==
    LET before == SelectSeq(s, LAMBDA y : y.start_page <= x.start_page)
        after  == SelectSeq(s, LAMBDA y : y.start_page > x.start_page)
    IN  before \o <<x>> \o after

RECURSIVE SortLoop(_, _, _)
SortLoop(s, i, acc) ==
    IF i > Len(s) THEN acc
    ELSE SortLoop(s, i + 1, InsertAfterEqual(s[i], acc))

\* A sort that forgets to sort.
SortByStartPage_Unsorted(s) == s

\* chapters.sort(key=lambda x: x.start_page)  (app.py:311, 360, 493, 525, 583)
SortByStartPage(s) == SortLoop(s, 1, <<>>)

\* ------------------------------------------------------ end-page assignment
\* End page taken as the next start page (exclusive end), not the page before it.
AssignEndPages_NextStart(s, total) ==
    [i \in 1..Len(s) |->
        [title      |-> s[i].title,
         start_page |-> s[i].start_page,
         end_page   |-> IF i < Len(s) THEN s[i + 1].start_page ELSE total]]

\* for i in range(len(c) - 1): c[i].end_page = c[i + 1].start_page - 1
\* if c: c[-1].end_page = self.total_pages      (app.py:527-530 and 313-316,
\* 362-365, 495-498, 585-588)
AssignEndPages(s, total) ==
    [i \in 1..Len(s) |->
        [title      |-> s[i].title,
         start_page |-> s[i].start_page,
         end_page   |-> IF i < Len(s) THEN s[i + 1].start_page - 1 ELSE total]]

\* ------------------------------------------------------------ de-duplication
\* seen = set(); keep a chapter when its key is not in seen  (app.py:517-523, 482-488)
RECURSIVE DedupTitlePageLoop(_, _, _, _)
DedupTitlePageLoop(s, i, seen, unique) ==
    IF i > Len(s) THEN unique
    ELSE LET key == <<s[i].title, s[i].start_page>>
         IN  IF key \notin seen
             THEN DedupTitlePageLoop(s, i + 1, seen \cup {key}, Append(unique, s[i]))
             ELSE DedupTitlePageLoop(s, i + 1, seen, unique)

DedupTitlePage(s) == DedupTitlePageLoop(s, 1, {}, <<>>)

\* seen_titles (app.py:353-358)
RECURSIVE DedupTitleLoop(_, _, _, _)
DedupTitleLoop(s, i, seen, unique) ==
    IF i > Len(s) THEN unique
    ELSE IF s[i].title \notin seen
         THEN DedupTitleLoop(s, i + 1, seen \cup {s[i].title}, Append(unique, s[i]))
         ELSE DedupTitleLoop(s, i + 1, seen, unique)

DedupTitle(s) == DedupTitleLoop(s, 1, {}, <<>>)

\* seen_pages (app.py:576-581)
RECURSIVE DedupPageLoop(_, _, _, _)
DedupPageLoop(s, i, seen, unique) ==
    IF i > Len(s) THEN unique
    ELSE IF s[i].start_page \notin seen
         THEN DedupPageLoop(s, i + 1, seen \cup {s[i].start_page}, Append(unique, s[i]))
         ELSE DedupPageLoop(s, i + 1, seen, unique)

\* A de-duplication that keys on the wrong field (title, not page).
DedupPage_ByTitle(s) == DedupTitle(s)

DedupPage(s) == DedupPageLoop(s, 1, {}, <<>>)

\* ---------------------------------------------------------------- extractors
\* What the outline holds: items with a title and the 1-based page number the
\* destination resolves to before clamping (app.py:294-303).
OutlineItems(total) == [title : Titles, page_num : 0..(total + 1)]

\* extract_chapters_from_outline (app.py:275-318): clamp, append, sort, end pages.
extract_chapters_from_outline(items, total) ==
    LET found == [i \in 1..Len(items) |->
                    Candidate(items[i].title,
                              Max(1, Min(items[i].page_num, total)))]
    IN  AssignEndPages(SortByStartPage(found), total)

\* What the formatting scan finds: title-like spans, start_page = page_num + 1.
PageHits(total) == [title : Titles, start_page : 1..total]

\* The scans walk range(self.total_pages): hits come in page order.
InPageOrder(s) == \A i \in 1..(Len(s) - 1) : s[i].start_page <= s[i + 1].start_page

\* extract_chapters_by_formatting (app.py:320-367), from the hits on: unique by
\* title, sort, end pages.
extract_chapters_by_formatting(hits, total) ==
    AssignEndPages(SortByStartPage(DedupTitle(hits)), total)

\* What the contents pages hold: lines with a title and a page token, with what
\* _printed_page_to_pdf_index makes of the token: unresolved (None) or a 0-based
\* index, which may lie outside the document.
TocEntries(total) ==
    [title : Titles, resolved : {FALSE}, pdf_idx : {0}]
        \cup [title : Titles, resolved : {TRUE}, pdf_idx : 0..total]

\* The extractor with the threshold lowered: a single surviving entry is output.
extract_chapters_by_table_of_contents_KeepOne(entries, total) ==
    LET kept   == SelectSeq(entries, LAMBDA e :
                      e.resolved /\ 1 <= e.pdf_idx + 1 /\ e.pdf_idx + 1 <= total)
        found  == [i \in 1..Len(kept) |-> Candidate(kept[i].title, kept[i].pdf_idx + 1)]
        unique == DedupTitlePage(found)
    IN  IF Len(unique) < 1 THEN <<>>
        ELSE AssignEndPages(SortByStartPage(unique), total)

\* extract_chapters_by_table_of_contents, steps 4 and 5 (app.py:458-500).
extract_chapters_by_table_of_contents(entries, total) ==
    LET kept   == SelectSeq(entries, LAMBDA e :
                      e.resolved /\ 1 <= e.pdf_idx + 1 /\ e.pdf_idx + 1 <= total)
        found  == [i \in 1..Len(kept) |-> Candidate(kept[i].title, kept[i].pdf_idx + 1)]
        unique == DedupTitlePage(found)
    IN  IF Len(unique) < 2 THEN <<>>
        ELSE AssignEndPages(SortByStartPage(unique), total)

\* simple_chapter_detection (app.py:557-590), from the keyword hits on: unique
\* by start page, sort, end pages.
simple_chapter_detection(hits, total) ==
    AssignEndPages(SortByStartPage(DedupPage(hits)), total)

\* ------------------------------------------------------------------- merging
RECURSIVE Extend(_, _, _)
Extend(lists, i, acc) ==
    IF i > Len(lists) THEN acc ELSE Extend(lists, i + 1, acc \o lists[i])

\* merge_chapters (app.py:506-532)
merge_chapters(chapters_list, total) ==
    IF chapters_list = <<>> THEN <<>>
    ELSE LET all_chapters == Extend(chapters_list, 1, <<>>)
             unique       == DedupTitlePage(
                                 [i \in 1..Len(all_chapters) |->
                                     Candidate(all_chapters[i].title,
                                               all_chapters[i].start_page)])
         IN  AssignEndPages(SortByStartPage(unique), total)

\* -------------------------------------------------------------------- output
\* The 1-based start_page used as the first index, without the - 1.
ChapterFile_OneBased(i, chapter, total) ==
    LET end_idx == Min(chapter.end_page, total)
    IN  [index     |-> i,
         title     |-> chapter.title,
         start_idx |-> chapter.start_page,
         end_idx   |-> end_idx,
         pages     |-> {p \in chapter.start_page..(end_idx - 1) : TRUE}]

\* One iteration of the loop of split_pdf_by_chapters (app.py:613-631): the file
\* written for chapter i, with the page indices range(start_idx, end_idx) adds.
\* end_page is never None here: every extractor and merge_chapters set it.
ChapterFile(i, chapter, total) ==
    LET end_page  == chapter.end_page
        start_idx == chapter.start_page - 1
        end_idx   == Min(end_page, total)
    IN  [index     |-> i,
         title     |-> chapter.title,
         start_idx |-> start_idx,
         end_idx   |-> end_idx,
         pages     |-> {p \in start_idx..(end_idx - 1) : TRUE}]

\* ------------------------------------------------------------------ pipeline
\* The helpers are not being called.
RomanIdle ==
    /\ r_kind = "none"
    /\ r_s = <<>>
    /\ r_n = 0
    /\ r_int = <<>>
    /\ r_str = <<>>
    /\ r_pc = "idle"

\* No extractor is being called on its own.
CallsIdle ==
    /\ toc_entries = <<>>
    /\ outline_tree = <<>>

\* The page-label map is not being built.
LabelIdle ==
    /\ label_map = <<>>
    /\ lm_pc = "idle"
    /\ lm_ran = <<>>
    /\ lm_src = {}
    /\ lm_printed = <<>>
    /\ lm_result = <<>>

\* main before `segmenter = PDFChapterSegmenter(pdf_path)` (app.py:676-677).
Init ==
    /\ total_pages = 0
    /\ outline_chapters = <<>>
    /\ formatting_chapters = <<>>
    /\ toc_chapters = <<>>
    /\ chapters = <<>>
    /\ simple_raw = <<>>
    /\ written = <<>>
    /\ pc = "start"
    /\ doc_open = FALSE
    /\ segmenter = FALSE
    /\ RomanIdle
    /\ CallsIdle
    /\ LabelIdle

\* app.py:678 and 82-92: the constructor opens the document, reads its page
\* count and returns; main binds `segmenter`.
Construct ==
    /\ pc = "start"
    /\ doc_open' = TRUE
    /\ segmenter' = TRUE
    /\ total_pages' \in 1..MaxPages
    /\ pc' = "outline"
    /\ UNCHANGED <<outline_chapters, formatting_chapters, toc_chapters, chapters,
                   simple_raw, written>>
    /\ UNCHANGED not_pipe_vars

\* app.py:678 and 82-92: the constructor raises, either before the document is
\* open (line 83, or fitz.open itself at line 86) or after it (PdfReader at line
\* 87, which is stricter than fitz.open, or a later line): `segmenter` stays None
\* and main's handlers (app.py:703-708) run.
ConstructFails ==
    /\ pc = "start"
    /\ doc_open' \in BOOLEAN
    /\ pc' = "construct_failed"
    /\ UNCHANGED <<total_pages, outline_chapters, formatting_chapters,
                   toc_chapters, chapters, simple_raw, written, segmenter>>
    /\ UNCHANGED not_pipe_vars

\* app.py:335-336: page.get_text("dict") of some page raises inside
\* extract_chapters_by_formatting, which has no handler; neither has
\* detect_chapters: the exception reaches main (app.py:705-708).
FormattingPageFails ==
    /\ pc = "formatting"
    /\ outline_chapters' = <<>>
    /\ pc' = "raised"
    /\ UNCHANGED <<total_pages, formatting_chapters, toc_chapters, chapters,
                   simple_raw, written>>
    /\ UNCHANGED session_vars
    /\ UNCHANGED not_pipe_vars

\* app.py:401-402, 409-410, 426, 440-441: page.get_text() of some page raises
\* inside extract_chapters_by_table_of_contents, which has no handler.
TocPageFails ==
    /\ pc = "toc"
    /\ outline_chapters' = <<>>
    /\ formatting_chapters' = <<>>
    /\ pc' = "raised"
    /\ UNCHANGED <<total_pages, toc_chapters, chapters, simple_raw, written>>
    /\ UNCHANGED session_vars
    /\ UNCHANGED not_pipe_vars

\* app.py:565-566: page.get_text() of some page raises inside
\* simple_chapter_detection, which has no handler.
SimplePageFails ==
    /\ pc = "merged"
    /\ chapters = <<>>
    /\ pc' = "raised"
    /\ UNCHANGED <<total_pages, outline_chapters, formatting_chapters,
                   toc_chapters, chapters, simple_raw, written>>
    /\ UNCHANGED session_vars
    /\ UNCHANGED not_pipe_vars

\* app.py:540
ExtractOutline ==
    /\ pc = "outline"
    /\ \E items \in SeqsUpTo(OutlineItems(total_pages), MaxCand) :
          outline_chapters' = extract_chapters_from_outline(items, total_pages)
    /\ pc' = "formatting"
    /\ UNCHANGED <<total_pages, formatting_chapters, toc_chapters, chapters,
                   simple_raw, written>>
    /\ UNCHANGED session_vars
    /\ UNCHANGED not_pipe_vars

\* app.py:541
ExtractFormatting ==
    /\ pc = "formatting"
    /\ \E hits \in SeqsUpTo(PageHits(total_pages), MaxCand) :
          /\ InPageOrder(hits)
          /\ formatting_chapters' = extract_chapters_by_formatting(hits, total_pages)
    /\ pc' = "toc"
    /\ UNCHANGED <<total_pages, outline_chapters, toc_chapters, chapters,
                   simple_raw, written>>
    /\ UNCHANGED session_vars
    /\ UNCHANGED not_pipe_vars

\* app.py:542
ExtractToc ==
    /\ pc = "toc"
    /\ \E entries \in SeqsUpTo(TocEntries(total_pages), MaxCand) :
          toc_chapters' = extract_chapters_by_table_of_contents(entries, total_pages)
    /\ pc' = "merge"
    /\ UNCHANGED <<total_pages, outline_chapters, formatting_chapters, chapters,
                   simple_raw, written>>
    /\ UNCHANGED session_vars
    /\ UNCHANGED not_pipe_vars

\* app.py:548. The three locals are not read after this line.
Merge ==
    /\ pc = "merge"
    /\ chapters' = merge_chapters(
                       <<outline_chapters, formatting_chapters, toc_chapters>>,
                       total_pages)
    /\ outline_chapters' = <<>>
    /\ formatting_chapters' = <<>>
    /\ toc_chapters' = <<>>
    /\ pc' = "merged"
    /\ UNCHANGED <<total_pages, simple_raw, written>>
    /\ UNCHANGED session_vars
    /\ UNCHANGED not_pipe_vars

\* app.py:550-552: nothing merged, so the keyword scan replaces self.chapters.
SimpleFallback ==
    /\ pc = "merged"
    /\ chapters = <<>>
    /\ \E hits \in SeqsUpTo(PageHits(total_pages), MaxCand) :
          /\ InPageOrder(hits)
          /\ simple_raw' = hits
          /\ chapters' = simple_chapter_detection(hits, total_pages)
    /\ pc' = "simple_done"
    /\ UNCHANGED <<total_pages, outline_chapters, formatting_chapters,
                   toc_chapters, written>>
    /\ UNCHANGED session_vars
    /\ UNCHANGED not_pipe_vars

\* app.py:554-555: detect_chapters returns self.chapters.
DetectReturn ==
    /\ \/ pc = "merged" /\ chapters # <<>>
       \/ pc = "simple_done"
    /\ pc' = "detected"
    /\ UNCHANGED <<total_pages, outline_chapters, formatting_chapters,
                   toc_chapters, chapters, simple_raw, written>>
    /\ UNCHANGED session_vars
    /\ UNCHANGED not_pipe_vars

\* app.py:683-694 and 596-611: chapters were found, the user asks for the files
\* and the output directory passes the path check; the loop starts.
SplitBegin ==
    /\ pc = "detected"
    /\ chapters # <<>>
    /\ pc' = "split"
    /\ UNCHANGED <<total_pages, outline_chapters, formatting_chapters,
                   toc_chapters, chapters, simple_raw, written>>
    /\ UNCHANGED session_vars
    /\ UNCHANGED not_pipe_vars

\* app.py:695-701 and 606-608: no chapters ("Nu s-au putut detecta capitole"),
\* the user declines, or the output directory is refused: nothing is written.
NoSplit ==
    /\ pc = "detected"
    /\ pc' = "closing"
    /\ UNCHANGED <<total_pages, outline_chapters, formatting_chapters,
                   toc_chapters, chapters, simple_raw, written>>
    /\ UNCHANGED session_vars
    /\ UNCHANGED not_pipe_vars

\* app.py:613-636: one iteration of the loop, which writes one file.
SplitChapter ==
    /\ pc = "split"
    /\ Len(written) < Len(chapters)
    /\ written' = Append(written,
                         ChapterFile(Len(written) + 1,
                                     chapters[Len(written) + 1], total_pages))
    /\ UNCHANGED <<total_pages, outline_chapters, formatting_chapters,
                   toc_chapters, chapters, simple_raw, pc>>
    /\ UNCHANGED session_vars
    /\ UNCHANGED not_pipe_vars

\* app.py:638: the loop is over.
SplitEnd ==
    /\ pc = "split"
    /\ Len(written) = Len(chapters)
    /\ pc' = "split_done"
    /\ UNCHANGED <<total_pages, outline_chapters, formatting_chapters,
                   toc_chapters, chapters, simple_raw, written>>
    /\ UNCHANGED session_vars
    /\ UNCHANGED not_pipe_vars

\* app.py:709-711 and 653-656: main's finally block, after the normal paths and
\* after the handlers of app.py:703-708: close() is called only when `segmenter`
\* is bound. (The document has at least one page, so self.pdf_document is truthy.)
Close ==
    /\ pc \in {"split_done", "closing", "raised", "construct_failed"}
    /\ doc_open' = IF segmenter THEN FALSE ELSE doc_open
    /\ pc' = "closed"
    /\ UNCHANGED <<total_pages, outline_chapters, formatting_chapters,
                   toc_chapters, chapters, simple_raw, written, segmenter>>
    /\ UNCHANGED not_pipe_vars

Next ==
    \/ Construct
    \/ ConstructFails
    \/ FormattingPageFails
    \/ TocPageFails
    \/ SimplePageFails
    \/ ExtractOutline
    \/ ExtractFormatting
    \/ ExtractToc
    \/ Merge
    \/ SimpleFallback
    \/ DetectReturn
    \/ SplitBegin
    \/ NoSplit
    \/ SplitChapter
    \/ SplitEnd
    \/ Close

Spec == Init /\ [][Next]_vars

\* ------------------------------------------------------ roman-numeral helpers
\* Strings are sequences of characters. The characters of the inputs: the seven
\* roman letters, a lower-case one and a blank, which is no numeral.
RomanLetters == {"I", "V", "X", "L", "C", "D", "M"}

Alphabet == RomanLetters \cup {"i", " "}

\* Optional[int]: None or an integer.
None == <<>>

Some(n) == <<n>>

\* The letters str.upper and str.lower exchange.
UpperLetters ==
    <<"A", "B", "C", "D", "E", "F", "G", "H", "I", "J", "K", "L", "M",
      "N", "O", "P", "Q", "R", "S", "T", "U", "V", "W", "X", "Y", "Z">>

LowerLetters ==
    <<"a", "b", "c", "d", "e", "f", "g", "h", "i", "j", "k", "l", "m",
      "n", "o", "p", "q", "r", "s", "t", "u", "v", "w", "x", "y", "z">>

\* The character of `to` at the place c has in `from`, c itself when it has none.
MapChar(c, from, to) ==
    IF \E i \in 1..Len(from) : from[i] = c
    THEN to[CHOOSE i \in 1..Len(from) : from[i] = c]
    ELSE c

\* str.upper on one character
UpperChar(c) ==
    CASE c = "i" -> "I"
      [] c = "v" -> "V"
      [] c = "x" -> "X"
      [] c = "l" -> "L"
      [] c = "c" -> "C"
      [] c = "d" -> "D"
      [] c = "m" -> "M"
      [] c \in RomanLetters -> c
      [] OTHER -> MapChar(c, LowerLetters, UpperLetters)

\* str.lower on one character
LowerChar(c) ==
    CASE c = "I" -> "i"
      [] c = "V" -> "v"
      [] c = "X" -> "x"
      [] c = "L" -> "l"
      [] c = "C" -> "c"
      [] c = "D" -> "d"
      [] c = "M" -> "m"
      [] c \in {"i", "v", "x", "l", "c", "d", "m"} -> c
      [] OTHER -> MapChar(c, UpperLetters, LowerLetters)

Upper(s) == [i \in 1..Len(s) |-> UpperChar(s[i])]

Lower(s) == [i \in 1..Len(s) |-> LowerChar(s[i])]

\* str.strip: leading and trailing blanks removed
RECURSIVE LStrip(_)
LStrip(s) == IF s # <<>> /\ Head(s) = " " THEN LStrip(Tail(s)) ELSE s

RECURSIVE RStrip(_)
RStrip(s) ==
    IF s # <<>> /\ s[Len(s)] = " " THEN RStrip(SubSeq(s, 1, Len(s) - 1)) ELSE s

Strip(s) == RStrip(LStrip(s))

\* c{lo,hi}
Repeat(c, lo, hi) == {[i \in 1..k |-> c] : k \in lo..hi}

\* M*: any number of M.
Thousands_Unbounded == Repeat("M", 0, MaxStrLen + 1)

\* M{0,4}  (app.py:16)
Thousands == Repeat("M", 0, 4)

\* (CM|CD|D?C{0,3}), (XC|XL|L?X{0,3}), (IX|IV|V?I{0,3})  (app.py:16)
DigitGroup(one, five, ten) ==
    {<<one, ten>>, <<one, five>>}
        \cup {d \o r : d \in {<<>>, <<five>>}, r \in Repeat(one, 0, 3)}

Hundreds == DigitGroup("C", "D", "M")

Tens == DigitGroup("X", "L", "C")

Units == DigitGroup("I", "V", "X")

\* _ROMAN_RE.match(s) (app.py:15-18): s, from ^ to $, is a thousands part, then
\* a hundreds, a tens and a units group; re.IGNORECASE folds the case.
RomanReMatch(s) ==
    LET u == Upper(s)
        n == Len(u)
    IN  \E i \in 0..n : \E j \in i..n : \E k \in j..n :
            /\ SubSeq(u, 1, i) \in Thousands
            /\ SubSeq(u, i + 1, j) \in Hundreds
            /\ SubSeq(u, j + 1, k) \in Tens
            /\ SubSeq(u, k + 1, n) \in Units

\* val (app.py:25-26)
RomanVal(ch) ==
    CASE ch = "I" -> 1
      [] ch = "V" -> 5
      [] ch = "X" -> 10
      [] ch = "L" -> 50
      [] ch = "C" -> 100
      [] ch = "D" -> 500
      [] ch = "M" -> 1000

\* for ch in reversed(s)  (app.py:27-32)
RECURSIVE RomanSumLoop(_, _, _, _)
RomanSumLoop(s, i, result, prev) ==
    IF i < 1 THEN result
    ELSE LET v == RomanVal(s[i])
         IN  RomanSumLoop(s, i - 1,
                          result + (IF v >= prev THEN v ELSE 0 - v), v)

\* A conversion that never subtracts: IV counts as 6.
RomanSum_Additive(s) ==
    LET F[i \in 0..Len(s)] == IF i = 0 THEN 0 ELSE F[i - 1] + RomanVal(s[i])
    IN  F[Len(s)]

RomanSum(s) == RomanSumLoop(s, Len(s), 0, 0)

\* _roman_to_int (app.py:20-33)
roman_to_int(str) ==
    LET s == Upper(Strip(str))
    IN  IF s = <<>> \/ ~RomanReMatch(s) THEN None
        ELSE LET result == RomanSum(s)
             IN  IF result > 0 THEN Some(result) ELSE None

\* val, syms (app.py:38-39)
RomanTable ==
    << <<1000, <<"M">> >>, <<900, <<"C", "M">> >>, <<500, <<"D">> >>,
       <<400, <<"C", "D">> >>, <<100, <<"C">> >>, <<90, <<"X", "C">> >>,
       <<50, <<"L">> >>, <<40, <<"X", "L">> >>, <<10, <<"X">> >>,
       <<9, <<"I", "X">> >>, <<5, <<"V">> >>, <<4, <<"I", "V">> >>,
       <<1, <<"I">> >> >>

\* for v, s in zip(val, syms): while n >= v: result += s; n -= v  (app.py:40-45)
RECURSIVE IntToRomanLoop(_, _, _)
IntToRomanLoop(n, t, result) ==
    IF t > Len(RomanTable) THEN result
    ELSE IF n >= RomanTable[t][1]
         THEN IntToRomanLoop(n - RomanTable[t][1], t, result \o RomanTable[t][2])
         ELSE IntToRomanLoop(n, t + 1, result)

\* _int_to_roman (app.py:36-45)
int_to_roman(n) == IntToRomanLoop(n, 1, <<>>)

\* The helpers are called with a string of at most MaxStrLen characters or with
\* an integer in 1..MaxN.

InitRoman ==
    /\ total_pages = 1
    /\ outline_chapters = <<>>
    /\ formatting_chapters = <<>>
    /\ toc_chapters = <<>>
    /\ chapters = <<>>
    /\ simple_raw = <<>>
    /\ written = <<>>
    /\ pc = "idle"
    /\ doc_open = FALSE
    /\ segmenter = FALSE
    /\ CallsIdle
    /\ LabelIdle
    /\ \/ /\ r_kind = "str"
          /\ \E k \in 0..MaxStrLen : r_s \in [1..k -> Alphabet]
          /\ r_n = 0
       \/ r_kind = "int" /\ r_s = <<>> /\ r_n \in 1..MaxN
    /\ r_int = None
    /\ r_str = <<>>
    /\ r_pc = "call"

\* n -> _int_to_roman(n)
CallIntToRoman ==
    /\ r_kind = "int"
    /\ r_pc = "call"
    /\ r_str' = int_to_roman(r_n)
    /\ r_pc' = "back"
    /\ UNCHANGED <<r_kind, r_s, r_n, r_int>>
    /\ UNCHANGED not_roman_vars

\* ... -> _roman_to_int(_int_to_roman(n))
BackRomanToInt ==
    /\ r_kind = "int"
    /\ r_pc = "back"
    /\ r_int' = roman_to_int(r_str)
    /\ r_pc' = "done"
    /\ UNCHANGED <<r_kind, r_s, r_n, r_str>>
    /\ UNCHANGED not_roman_vars

\* s -> _roman_to_int(s)
CallRomanToInt ==
    /\ r_kind = "str"
    /\ r_pc = "call"
    /\ r_int' = roman_to_int(r_s)
    /\ r_pc' = IF r_int' = None THEN "done" ELSE "back"
    /\ UNCHANGED <<r_kind, r_s, r_n, r_str>>
    /\ UNCHANGED not_roman_vars

\* ... -> _int_to_roman(_roman_to_int(s)), when s was accepted
BackIntToRoman ==
    /\ r_kind = "str"
    /\ r_pc = "back"
    /\ r_str' = int_to_roman(r_int[1])
    /\ r_pc' = "done"
    /\ UNCHANGED <<r_kind, r_s, r_n, r_int>>
    /\ UNCHANGED not_roman_vars

NextRoman ==
    \/ CallIntToRoman
    \/ BackRomanToInt
    \/ CallRomanToInt
    \/ BackIntToRoman

SpecRoman == InitRoman /\ [][NextRoman]_vars

\* ------------------------------------------------------ the page-label map
DecimalDigits == <<"0", "1", "2", "3", "4", "5", "6", "7", "8", "9">>

\* str(n) for n >= 0  (app.py:146, 156)
RECURSIVE IntToStr(_)
IntToStr(n) ==
    IF n < Len(DecimalDigits) THEN <<DecimalDigits[n + 1]>>
    ELSE Append(IntToStr(n \div Len(DecimalDigits)),
                DecimalDigits[(n % Len(DecimalDigits)) + 1])

\* while n > 0: n, rem = divmod(n - 1, 26); result = chr(ord('A') + rem) + result
RECURSIVE IntToAlphaLoop(_, _)
IntToAlphaLoop(n, result) ==
    IF n > 0
    THEN IntToAlphaLoop((n - 1) \div Len(UpperLetters),
                        <<UpperLetters[((n - 1) % Len(UpperLetters)) + 1]>> \o result)
    ELSE result

\* _int_to_alpha (app.py:48-54)
int_to_alpha(n) == IntToAlphaLoop(n, <<>>)

\* label_map: Dict[str, int] = {}
EmptyMap == <<>>

\* label_map[k] = v
Put(m, k, v) == [x \in (DOMAIN m) \cup {k} |-> IF x = k THEN v ELSE m[x]]

\* label_map.setdefault(k, v)
SetDefault(m, k, v) == IF k \in DOMAIN m THEN m ELSE Put(m, k, v)

\* The two writes of methods A and B: the lowercased label, then the label.
PutLabel(m, label, idx) ==
    Put(Put(m, Lower(Strip(label)), idx), Strip(label), idx)

\* The two writes of method C: setdefault of the lowercased token, then the token.
SetDefaultLabel(m, token, idx) ==
    SetDefault(SetDefault(m, Lower(Strip(token)), idx), Strip(token), idx)

\* The test that never lets a method return.
Returns_Never(m) == FALSE

\* `if label_map: return label_map`  (app.py:120-121, 160-161)
Returns(m) == DOMAIN m # {}

\* What reading one page gives methods A and C: an exception, no label (None or
\* ''), or a label.
PageLabels == {<<"1">>, <<"i">>, <<"I">>}

PageReads == [ok : {FALSE}, label : {<<>>}] \cup [ok : {TRUE}, label : {<<>>} \cup PageLabels]

\* Method A, the loop over range(self.total_pages) (app.py:112-119): a page
\* whose read raises or whose label is empty writes nothing.
RECURSIVE MethodALoop(_, _, _)
MethodALoop(reads, idx, m) ==
    IF idx >= Len(reads) THEN m
    ELSE IF reads[idx + 1].ok /\ reads[idx + 1].label # <<>>
         THEN MethodALoop(reads, idx + 1, PutLabel(m, reads[idx + 1].label, idx))
         ELSE MethodALoop(reads, idx + 1, m)

\* Method C, the loop over range(self.total_pages) (app.py:166-186): the first
\* token of a page is entered with setdefault.
RECURSIVE MethodCLoop(_, _, _)
MethodCLoop(reads, idx, m) ==
    IF idx >= Len(reads) THEN m
    ELSE IF reads[idx + 1].ok /\ reads[idx + 1].label # <<>>
         THEN MethodCLoop(reads, idx + 1, SetDefaultLabel(m, reads[idx + 1].label, idx))
         ELSE MethodCLoop(reads, idx + 1, m)

\* The <<page index, label>> pairs a run of method A or C saw.
ReadPairs(reads) ==
    {<<i - 1, Strip(reads[i].label)>> :
        i \in {j \in 1..Len(reads) : reads[j].ok /\ reads[j].label # <<>>}}

\* The /S entries: None, the five styles and one the code does not know.
Styles == {"None", "/D", "/r", "/R", "/a", "/A", "/x"}

\* label of page pdf_idx in a range (app.py:141-156); the prefix is ''.
RangeLabel(style, n) ==
    CASE style = "None" -> <<>>
      [] style = "/D" -> IntToStr(n)
      [] style = "/r" -> Lower(int_to_roman(n))
      [] style = "/R" -> Upper(int_to_roman(n))
      [] style = "/a" -> Lower(int_to_alpha(n))
      [] style = "/A" -> Upper(int_to_alpha(n))
      [] OTHER -> IntToStr(n)

\* ranges_raw entries (app.py:131-136): start_idx, style, first.
Ranges(total) == [start_idx : 0..(total - 1), style : Styles, first : 1..2]

\* end_idx of range ri (app.py:139)
EndIdx(ranges, ri, total) ==
    IF ri + 1 <= Len(ranges) THEN ranges[ri + 1].start_idx ELSE total

\* for pdf_idx in range(start_idx, end_idx)  (app.py:140-158)
RECURSIVE MethodBPages(_, _, _, _)
MethodBPages(r, pdf_idx, end_idx, m) ==
    IF pdf_idx >= end_idx THEN m
    ELSE MethodBPages(r, pdf_idx + 1, end_idx,
             PutLabel(m, RangeLabel(r.style, r.first + (pdf_idx - r.start_idx)),
                      pdf_idx))

\* for ri, (...) in enumerate(ranges_raw)  (app.py:138-158)
RECURSIVE MethodBLoop(_, _, _, _)
MethodBLoop(ranges, ri, total, m) ==
    IF ri > Len(ranges) THEN m
    ELSE MethodBLoop(ranges, ri + 1, total,
             MethodBPages(ranges[ri], ranges[ri].start_idx,
                          EndIdx(ranges, ri, total), m))

\* The <<page index, label>> pairs a run of method B computed.
RangePairs(ranges, total) ==
    {<<x[2], Strip(RangeLabel(ranges[x[1]].style,
                              ranges[x[1]].first + (x[2] - ranges[x[1]].start_idx)))>> :
        x \in {y \in (1..Len(ranges)) \X (0..(total - 1)) :
                  /\ ranges[y[1]].start_idx <= y[2]
                  /\ y[2] < EndIdx(ranges, y[1], total)}}

\* The constructor at `self._label_to_pdf_index = self._build_label_map()`
\* (app.py:92), the document open and its page count known.
InitLabel ==
    /\ total_pages \in 1..MaxPages
    /\ outline_chapters = <<>>
    /\ formatting_chapters = <<>>
    /\ toc_chapters = <<>>
    /\ chapters = <<>>
    /\ simple_raw = <<>>
    /\ written = <<>>
    /\ pc = "build_label_map"
    /\ doc_open = TRUE
    /\ segmenter = FALSE
    /\ CallsIdle
    /\ RomanIdle
    /\ label_map = EmptyMap
    /\ lm_pc = "A"
    /\ lm_ran = <<>>
    /\ lm_src = {}
    /\ lm_printed = <<>>
    /\ lm_result = None

\* Method A (app.py:110-121): skipped when fitz has no Page.get_label.
MethodA ==
    /\ lm_pc = "A"
    /\ \E has_get_label \in BOOLEAN :
          \E reads \in [1..total_pages -> PageReads] :
             LET m == IF has_get_label THEN MethodALoop(reads, 0, label_map)
                      ELSE label_map
             IN  /\ label_map' = m
                 /\ lm_ran' = Append(lm_ran,
                        [method |-> "A",
                         wrote  |-> IF has_get_label
                                    THEN DOMAIN MethodALoop(reads, 0, EmptyMap)
                                    ELSE {},
                         failed |-> has_get_label
                                    /\ \E i \in 1..Len(reads) : ~reads[i].ok])
                 /\ lm_src' = IF has_get_label THEN lm_src \cup ReadPairs(reads)
                              ELSE lm_src
                 /\ lm_pc' = IF has_get_label /\ Returns(m) THEN "done" ELSE "B"
    /\ UNCHANGED <<lm_printed, lm_result>>
    /\ UNCHANGED <<pipe_vars, session_vars, call_vars, roman_vars>>

\* Method B without ranges (app.py:124-136, 162-163): the catalog has no
\* /PageLabels, or reading it raises before the first range is populated.
MethodBNoRanges ==
    /\ lm_pc = "B"
    /\ \E raised \in BOOLEAN :
          lm_ran' = Append(lm_ran, [method |-> "B", wrote |-> {}, failed |-> raised])
    /\ lm_pc' = "C"
    /\ UNCHANGED <<label_map, lm_src, lm_printed, lm_result>>
    /\ UNCHANGED <<pipe_vars, session_vars, call_vars, roman_vars>>

\* Method B with the ranges of /Nums (app.py:138-161), in the order of their
\* start indices.
MethodB ==
    /\ lm_pc = "B"
    /\ \E k \in 0..MaxCand :
          \E ranges \in [1..k -> Ranges(total_pages)] :
             /\ \A i \in 1..(k - 1) : ranges[i].start_idx < ranges[i + 1].start_idx
             /\ LET m == MethodBLoop(ranges, 1, total_pages, label_map)
                IN  /\ label_map' = m
                    /\ lm_ran' = Append(lm_ran,
                           [method |-> "B",
                            wrote  |-> DOMAIN MethodBLoop(ranges, 1, total_pages,
                                                          EmptyMap),
                            failed |-> FALSE])
                    /\ lm_src' = lm_src \cup RangePairs(ranges, total_pages)
                    /\ lm_pc' = IF Returns(m) THEN "done" ELSE "C"
    /\ UNCHANGED <<lm_printed, lm_result>>
    /\ UNCHANGED <<pipe_vars, session_vars, call_vars, roman_vars>>

\* Method C (app.py:165-188)
MethodC ==
    /\ lm_pc = "C"
    /\ \E reads \in [1..total_pages -> PageReads] :
          /\ label_map' = MethodCLoop(reads, 0, label_map)
          /\ lm_ran' = Append(lm_ran,
                 [method |-> "C",
                  wrote  |-> DOMAIN MethodCLoop(reads, 0, EmptyMap),
                  failed |-> \E i \in 1..Len(reads) : ~reads[i].ok])
          /\ lm_src' = lm_src \cup ReadPairs(reads)
    /\ lm_pc' = "done"
    /\ UNCHANGED <<lm_printed, lm_result>>
    /\ UNCHANGED <<pipe_vars, session_vars, call_vars, roman_vars>>

\* The labels _printed_page_to_pdf_index is asked for.
Printed == PageLabels \cup {<<"2">>, <<" ", "i">>, <<"X">>}

\* _printed_page_to_pdf_index (app.py:190-249): the direct lookup of step 1;
\* when it misses, steps 2 to 4 give None or a page of the document, as the
\* page texts decide.
printed_page_to_pdf_index ==
    /\ lm_pc = "done"
    /\ \E p \in Printed :
          /\ lm_printed' = p
          /\ LET printed       == Strip(p)
                 printed_lower == Lower(printed)
             IN  IF printed_lower \in DOMAIN label_map
                 THEN lm_result' = Some(label_map[printed_lower])
                 ELSE IF printed \in DOMAIN label_map
                 THEN lm_result' = Some(label_map[printed])
                 ELSE lm_result' \in {None} \cup {Some(i) : i \in 0..(total_pages - 1)}
    /\ lm_pc' = "looked"
    /\ UNCHANGED <<label_map, lm_ran, lm_src>>
    /\ UNCHANGED <<pipe_vars, session_vars, call_vars, roman_vars>>

NextLabel ==
    \/ MethodA
    \/ MethodBNoRanges
    \/ MethodB
    \/ MethodC
    \/ printed_page_to_pdf_index

SpecLabel == InitLabel /\ [][NextLabel]_vars

\* ------------------------------------- the outline extractor called alone
\* A bookmark: its /Title and what its /Page resolves to. page_ref is None when
\* the IndirectObject matches no page of the reader (app.py:300-301), else
\* Some(page_num) with page_num = idx + 1 or int(page_ref) + 1 (app.py:298, 303).
Bookmarks(total) ==
    [title : Titles, page_ref : {None} \cup {Some(n) : n \in 0..(total + 1)}]

\* self.reader.outline as PyPDF2 gives it: a list whose elements are bookmarks
\* or, after a bookmark, the list of its children. An element is
\* [is_list, items]: one bookmark in items when it is not a list.
RECURSIVE BuildOutline(_, _, _, _)
BuildOutline(leaves, nested, i, acc) ==
    IF i > Len(leaves) THEN acc
    ELSE IF ~nested[i]
         THEN BuildOutline(leaves, nested, i + 1,
                  Append(acc, [is_list |-> FALSE, items |-> <<leaves[i]>>]))
    ELSE IF nested[i - 1]
         THEN BuildOutline(leaves, nested, i + 1,
                  [acc EXCEPT ![Len(acc)].items = Append(@, leaves[i])])
    ELSE BuildOutline(leaves, nested, i + 1,
                  Append(acc, [is_list |-> TRUE, items |-> <<leaves[i]>>]))

\* The else branch of process_outline_item (app.py:288-308): a bookmark whose
\* page is not found returns, any other is appended with its level.
ProcessBookmark(item, level) ==
    IF item.page_ref = None THEN <<>>
    ELSE <<[title |-> item.title, page_num |-> item.page_ref[1], level |-> level]>>

\* `for subitem in item: process_outline_item(subitem, level + 1)` over bookmarks.
RECURSIVE ProcessBookmarks(_, _)
ProcessBookmarks(items, level) ==
    IF items = <<>> THEN <<>>
    ELSE ProcessBookmark(Head(items), level) \o ProcessBookmarks(Tail(items), level)

\* The traversal that skips the lists of children.
RECURSIVE process_outline_item_TopOnly(_, _)
process_outline_item_TopOnly(item, level) ==
    IF item = <<>> THEN <<>>
    ELSE (IF Head(item).is_list THEN <<>>
          ELSE ProcessBookmarks(Head(item).items, level + 1))
         \o process_outline_item_TopOnly(Tail(item), level)

\* process_outline_item(outline) (app.py:284-310): the elements of the list at
\* level + 1, the bookmarks of a list of children one level further down.
RECURSIVE process_outline_item(_, _)
process_outline_item(item, level) ==
    IF item = <<>> THEN <<>>
    ELSE (IF Head(item).is_list
          THEN ProcessBookmarks(Head(item).items, level + 2)
          ELSE ProcessBookmarks(Head(item).items, level + 1))
         \o process_outline_item(Tail(item), level)

\* A document with its outline, before the call.
InitOutline ==
    /\ total_pages \in 1..MaxPages
    /\ outline_chapters = <<>>
    /\ formatting_chapters = <<>>
    /\ toc_chapters = <<>>
    /\ chapters = <<>>
    /\ simple_raw = <<>>
    /\ written = <<>>
    /\ pc = "outline_call"
    /\ doc_open = TRUE
    /\ segmenter = TRUE
    /\ toc_entries = <<>>
    /\ \E k \in 0..MaxCand :
          \E leaves \in [1..k -> Bookmarks(total_pages)] :
             \E nested \in [1..k -> BOOLEAN] :
                /\ k >= 1 => ~nested[1]
                /\ outline_tree = BuildOutline(leaves, nested, 1, <<>>)
    /\ RomanIdle
    /\ LabelIdle

\* outline_chapters = self.extract_chapters_from_outline()
CallExtractOutline ==
    /\ pc = "outline_call"
    /\ outline_chapters' =
          extract_chapters_from_outline(process_outline_item(outline_tree, 1),
                                        total_pages)
    /\ pc' = "outline_ret"
    /\ UNCHANGED <<total_pages, formatting_chapters, toc_chapters, chapters,
                   simple_raw, written>>
    /\ UNCHANGED session_vars
    /\ UNCHANGED not_pipe_vars

NextOutline == CallExtractOutline

SpecOutline == InitOutline /\ [][NextOutline]_vars

\* ------------------------------------- the contents extractor called alone
\* A document with its contents entries, before the call.
InitToc ==
    /\ total_pages \in 1..MaxPages
    /\ outline_chapters = <<>>
    /\ formatting_chapters = <<>>
    /\ toc_chapters = <<>>
    /\ chapters = <<>>
    /\ simple_raw = <<>>
    /\ written = <<>>
    /\ pc = "toc_call"
    /\ doc_open = TRUE
    /\ segmenter = TRUE
    /\ \E k \in 0..MaxCand : toc_entries \in [1..k -> TocEntries(total_pages)]
    /\ outline_tree = <<>>
    /\ RomanIdle
    /\ LabelIdle

\* toc_chapters = self.extract_chapters_by_table_of_contents()
CallExtractToc ==
    /\ pc = "toc_call"
    /\ toc_chapters' = extract_chapters_by_table_of_contents(toc_entries, total_pages)
    /\ pc' = "toc_ret"
    /\ UNCHANGED <<total_pages, outline_chapters, formatting_chapters, chapters,
                   simple_raw, written>>
    /\ UNCHANGED session_vars
    /\ UNCHANGED not_pipe_vars

NextToc == CallExtractToc

SpecToc == InitToc /\ [][NextToc]_vars

\* =================================================================== claims
Sorted(s) == \A i \in 1..(Len(s) - 1) : s[i].start_page <= s[i + 1].start_page

\* C1: what merge_chapters returns is sorted ascending by start_page: every
\* adjacent pair has result[i].start_page <= result[i+1].start_page.
C1_MergedSorted == pc = "merged" => Sorted(chapters)

\* A merge of three chapters, two of them on the same page.
C1_Witness ==
    /\ pc = "merged"
    /\ Len(chapters) >= 3
    /\ chapters[1].start_page = chapters[2].start_page
    /\ chapters[2].start_page < chapters[3].start_page

\* C2 as stated: after merge_chapters every chapter but the last has end_page
\* equal to the start_page of the next one, and the last has end_page equal to
\* total_pages.
C2_Original ==
    pc = "merged" =>
        /\ \A i \in 1..(Len(chapters) - 1) :
               chapters[i].end_page = chapters[i + 1].start_page
        /\ chapters # <<>> => chapters[Len(chapters)].end_page = total_pages

\* C2 as amended: after merge_chapters every chapter but the last has end_page
\* equal to the start_page of the next one minus 1 (pages are 1-based and
\* end_page is the last page of the chapter), and the last has end_page equal
\* to total_pages.
C2_EndPages ==
    pc = "merged" =>
        /\ \A i \in 1..(Len(chapters) - 1) :
               chapters[i].end_page = chapters[i + 1].start_page - 1
        /\ chapters # <<>> => chapters[Len(chapters)].end_page = total_pages

\* A merge of two chapters that start on different pages.
C2_Witness ==
    /\ pc = "merged"
    /\ Len(chapters) >= 2
    /\ chapters[1].start_page < chapters[2].start_page

\* C3: the page ranges split_pdf_by_chapters iterates have no gaps and no
\* overlaps: the range of file i ends where the range of file i+1 begins, no
\* page index is written into two files, and the last range ends at total_pages.
C3_RangesContiguous ==
    /\ \A i \in 1..Len(written) : written[i].start_idx <= written[i].end_idx
    /\ \A i \in 1..(Len(written) - 1) :
           written[i].end_idx = written[i + 1].start_idx
    /\ \A i, j \in 1..Len(written) :
           i # j => written[i].pages \cap written[j].pages = {}
    /\ pc = "split_done" => written[Len(written)].end_idx = total_pages

\* All files written, at least two of them with pages.
C3_Witness ==
    /\ pc = "split_done"
    /\ Len(written) >= 2
    /\ written[1].pages # {}
    /\ written[2].pages # {}

\* C4: the ranges written are a partition of the document: every page index in
\* [0, total_pages) is in exactly one of them, wherever the first chapter starts.
C4_Partition ==
    pc = "split_done" =>
        \A p \in 0..(total_pages - 1) :
            Cardinality({i \in 1..Len(written) : p \in written[i].pages}) = 1

StartPages(s) == {s[i].start_page : i \in 1..Len(s)}

EndNotBeforeStart(s) == \A i \in 1..Len(s) : s[i].end_page >= s[i].start_page

\* C6: every chapter whose end_page is set has end_page >= start_page: those an
\* extractor returns, those merge_chapters returns and those detect_chapters
\* returns, also when two of them start on the same page.
C6_EndNotBeforeStart ==
    /\ EndNotBeforeStart(outline_chapters)
    /\ EndNotBeforeStart(formatting_chapters)
    /\ EndNotBeforeStart(toc_chapters)
    /\ EndNotBeforeStart(chapters)

\* C7: of two candidates with the same start_page and different titles only
\* the first in concatenation order is merged: what merge_chapters returns
\* never has two chapters with the same start_page.
C7_OneChapterPerStartPage ==
    pc = "merged" =>
        \A i, j \in 1..Len(chapters) :
            i # j => chapters[i].start_page # chapters[j].start_page

\* C8: no file is written for a chapter whose start is at or beyond the end of
\* the document or whose range [start_idx, min(end_page, total_pages)) is empty.
C8_NoEmptyFile ==
    \A i \in 1..Len(written) :
        /\ written[i].start_idx < total_pages
        /\ written[i].pages # {}

\* C9: for every n in 1..MaxN, _roman_to_int(_int_to_roman(n)) = n; and for
\* every string s that _roman_to_int accepts, _int_to_roman(_roman_to_int(s))
\* is s stripped and upper-cased.
C9_RoundTrip ==
    r_pc = "done" =>
        /\ r_kind = "int" => r_int = Some(r_n)
        /\ (r_kind = "str" /\ r_int # None) => r_str = Upper(Strip(r_s))

\* An accepted string that is not in upper case already, converted and back.
C9_Witness ==
    /\ r_pc = "done"
    /\ r_kind = "str"
    /\ r_int # None
    /\ Len(r_str) >= 2
    /\ r_str # r_s

\* s has k or more consecutive c.
HasRun(s, c, k) ==
    \E i \in 1..(Len(s) - k + 1) : \A j \in i..(i + k - 1) : s[j] = c

Normalized(s) == Upper(Strip(s))

\* C10 as stated: _roman_to_int returns None for the empty string and for any
\* string with more than 3 consecutive I, X, C or M or with a repeated V, L or
\* D, and it accepts its input in either case.
C10_Original ==
    (r_kind = "str" /\ r_pc # "call") =>
        /\ ( \/ Normalized(r_s) = <<>>
             \/ \E c \in {"I", "X", "C", "M"} : HasRun(Normalized(r_s), c, 4)
             \/ \E c \in {"V", "L", "D"} : HasRun(Normalized(r_s), c, 2) )
           => r_int = None
        /\ r_int = roman_to_int(Lower(r_s))

\* C10 as amended: _roman_to_int returns None for the empty string and for any
\* string with more than 3 consecutive I, X or C, with more than 4 consecutive
\* M, or with a repeated V, L or D; four M are accepted (MMMM is 4000); it
\* accepts its input in either case.
C10_RejectsMalformed ==
    (r_kind = "str" /\ r_pc # "call") =>
        /\ ( \/ Normalized(r_s) = <<>>
             \/ \E c \in {"I", "X", "C"} : HasRun(Normalized(r_s), c, 4)
             \/ HasRun(Normalized(r_s), "M", 5)
             \/ \E c \in {"V", "L", "D"} : HasRun(Normalized(r_s), c, 2) )
           => r_int = None
        /\ Normalized(r_s) = <<"M", "M", "M", "M">> => r_int = Some(4000)
        /\ r_int = roman_to_int(Lower(r_s))

\* Five M handed to _roman_to_int and refused.
C10_Witness ==
    /\ r_kind = "str"
    /\ r_pc = "done"
    /\ Normalized(r_s) = <<"M", "M", "M", "M", "M">>
    /\ r_int = None

\* C13: the handle fitz.open returned is closed on every way out of main: after
\* a normal run, after an exception of an extractor, after an empty result, and
\* when the constructor fails after the document was opened.
C13_HandleClosed == pc = "closed" => ~doc_open

\* C14: no extractor raises because one page cannot be read: the page is
\* skipped and detect_chapters completes, so main's exception handler is never
\* reached from a page failure.
C14_NoExtractorRaises == pc # "raised"

\* The (title, 1-based page) pairs of the entries that resolve to a page of the
\* document.
TocSurvivors ==
    {<<toc_entries[i].title, toc_entries[i].pdf_idx + 1>> :
        i \in {j \in 1..Len(toc_entries) :
                  /\ toc_entries[j].resolved
                  /\ toc_entries[j].pdf_idx >= 0
                  /\ toc_entries[j].pdf_idx < total_pages}}

\* C15: extract_chapters_by_table_of_contents returns the empty list or at
\* least 2 entries: with fewer than 2 distinct (title, page) pairs left after
\* the unresolved and out-of-document entries are dropped the result is empty,
\* otherwise it is those pairs, each once; every returned page is in the document.
C15_TocTwoOrNone ==
    pc = "toc_ret" =>
        /\ Len(toc_chapters) # 1
        /\ Cardinality(TocSurvivors) < 2 => toc_chapters = <<>>
        /\ Cardinality(TocSurvivors) >= 2 =>
               /\ Len(toc_chapters) = Cardinality(TocSurvivors)
               /\ {<<toc_chapters[i].title, toc_chapters[i].start_page>> :
                      i \in 1..Len(toc_chapters)} = TocSurvivors
        /\ \A i \in 1..Len(toc_chapters) :
               toc_chapters[i].start_page \in 1..total_pages

\* Two entries, one of them dropped: a single survivor, and an empty result.
C15_Witness ==
    /\ pc = "toc_ret"
    /\ Len(toc_entries) = 2
    /\ Cardinality(TocSurvivors) = 1
    /\ toc_chapters = <<>>

\* The positions <<i, j>> of the bookmarks of the outline whose page resolves:
\* element i of the outline, bookmark j in it.
ResolvedAt(top_only) ==
    {ij \in (1..Len(outline_tree)) \X (1..MaxCand) :
        /\ ij[2] <= Len(outline_tree[ij[1]].items)
        /\ outline_tree[ij[1]].items[ij[2]].page_ref # None
        /\ top_only => ~outline_tree[ij[1]].is_list}

\* The title and clamped page of the bookmark at a position.
EmittedFor(ij) ==
    LET b == outline_tree[ij[1]].items[ij[2]]
    IN  <<b.title, Max(1, Min(b.page_ref[1], total_pages))>>

MethodOrder == <<"A", "B", "C">>

\* C11: _build_label_map enters its methods in the order A, B, C; a method is
\* entered only while the map is empty; the map returned holds the entries of
\* the last method entered and of no other; a method that failed without an
\* entry is followed by the next one, and the build returns after C at the latest.
C11_FirstMethodWins ==
    /\ Len(lm_ran) <= Len(MethodOrder)
    /\ \A i \in 1..Len(lm_ran) : lm_ran[i].method = MethodOrder[i]
    /\ lm_pc \in {"A", "B", "C"} => DOMAIN label_map = {}
    /\ lm_pc \in {"A", "B", "C"} => lm_pc = MethodOrder[Len(lm_ran) + 1]
    /\ lm_pc \in {"done", "looked"} =>
          /\ lm_ran # <<>>
          /\ \A i \in 1..(Len(lm_ran) - 1) : lm_ran[i].wrote = {}
          /\ DOMAIN label_map = lm_ran[Len(lm_ran)].wrote
          /\ lm_ran[Len(lm_ran)].wrote = {} => Len(lm_ran) = Len(MethodOrder)

\* Method A had a page that raised and gave no label, method B raised, and the
\* map returned is the one method C filled.
C11_Witness ==
    /\ lm_pc = "done"
    /\ Len(lm_ran) = 3
    /\ lm_ran[1].failed
    /\ lm_ran[2].failed
    /\ DOMAIN label_map # {}

\* The lowest page index that carries a label lowercasing to k.
FirstCarrier(k) ==
    CHOOSE i \in {x[1] : x \in {y \in lm_src : Lower(y[2]) = k}} :
        \A x \in {y \in lm_src : Lower(y[2]) = k} : i <= x[1]

\* C12: when the map is built, a label carried by several pages (as printed or
\* after lowercasing) maps to the lowest page index that carries it, and
\* _printed_page_to_pdf_index asked for such a label returns that index.
C12_FirstWriteKept ==
    /\ lm_pc \in {"done", "looked"} =>
          \A x \in lm_src :
             /\ Lower(x[2]) \in DOMAIN label_map
             /\ label_map[Lower(x[2])] = FirstCarrier(Lower(x[2]))
    /\ lm_pc = "looked" =>
          \A x \in lm_src :
             Lower(x[2]) = Lower(Strip(lm_printed)) =>
                lm_result = Some(FirstCarrier(Lower(x[2])))

====
